---- MODULE Spec2Model ----
(***************************************************************************)
(* The tick driver of the xi Screeps bot (src/javascript/main.js, lines    *)
(* 1-86): the host calls module.exports.loop once per tick and may call    *)
(* global.set_room_blueprint between ticks.  The compiled module 'xi' and  *)
(* the host (Game, console, require) are collaborators: every call into    *)
(* them returns normally or throws, chosen nondeterministically.           *)
(*                                                                         *)
(* A handler runs to completion (JavaScript is single threaded), so each   *)
(* handler is one action.  The calls it makes are appended, in order, to   *)
(* hist, the list of calls of the current process lifetime.                *)
(*                                                                         *)
(* Strings are sequences of tokens; joining and concatenation are done on  *)
(* these sequences as the code does them on strings.                       *)
(***************************************************************************)
EXTENDS Integers, Sequences, FiniteSets, TLC

VARIABLES
    wasmModule,       \* main.js:2, undefined or the handle require('xi') returned
    initialized,      \* main.js:3
    restartNextTick,  \* main.js:11
    Memory,           \* global.Memory: [id, keys], id is the object's identity
    xi,               \* the module object: [wasm (its __wasm field), log (its log buffer)]
    nextObj,          \* identity of the next object literal {} to be created
    hist,             \* calls made so far in this process lifetime, oldest first
    last,             \* the handler that ran last, with the state it started from
    halted,           \* Game.cpu.halt() was called: the runtime is being reset
    ticks,            \* ticks delivered in this process lifetime
    commands          \* commands issued in this process lifetime

vars == <<wasmModule, initialized, restartNextTick, Memory, xi, nextObj, hist, last,
          halted, ticks, commands>>

(* Bounds of the model. *)
MaxTicks == 3
MaxCommands == 2

(* main.js:60 *)
minCPU == 750

(* Game.cpu.bucket values the host may report: both sides of minCPU. *)
Buckets == {749, 750, 800}

(* Keys the module may write into global.Memory. *)
Keys == {"creeps"}

RoomNames == {"W1N1"}
BlueprintJSONs == {"{}"}

undefined == "undefined"

(* The outcome of a call into a collaborator: a normal return, or a thrown  *)
(* value with its message and its stack ("" when the thrown value has no    *)
(* stack property, as for a thrown string).  Thrown values are Error        *)
(* objects (a WASM trap, an exception of the game API) or other values that *)
(* are neither null nor undefined, so that reading ex.stack is defined.     *)
Returned == [thrown |-> FALSE, message |-> "", stack |-> ""]
Exceptions ==
    { [thrown |-> TRUE, message |-> "boom", stack |-> "at xi.wasm"],
      [thrown |-> TRUE, message |-> "oops", stack |-> ""] }
Outcomes == {Returned} \cup Exceptions

(* ---------------------------------------------------------------------- *)
(* The machine state a handler works on, and call recording.              *)

State ==
    [wasmModule |-> wasmModule, initialized |-> initialized,
     restartNextTick |-> restartNextTick, Memory |-> Memory, xi |-> xi,
     nextObj |-> nextObj, hist |-> hist, halted |-> halted]

Call(op, arg, out, s) ==
    [op |-> op, arg |-> arg, thrown |-> out.thrown, message |-> out.message,
     mem |-> s.Memory, restart |-> s.restartNextTick]

emit(s, op, arg, out) == [s EXCEPT !.hist = Append(@, Call(op, arg, out, s))]

(* The result of running a piece of code: the state it leaves, the exception *)
(* in flight (Returned when none) and the value returned.                    *)
Result(s, ex, ret) == [s |-> s, ex |-> ex, ret |-> ret]

(* Array.prototype.join(' ') over strings *)
RECURSIVE join(_)
join(args) ==
    IF Len(args) = 0 THEN <<>>
    ELSE IF Len(args) = 1 THEN args[1]
    ELSE args[1] \o <<" ">> \o join(Tail(args))

console_log(s, text) == emit(s, "console.log", text, Returned)
Game_notify(s, text) == emit(s, "Game.notify", text, Returned)

(* Mutant of displayError: the message is logged and nobody is notified. *)
displayError_noNotify(s, args) ==
    LET message == join(args)
    IN  console_log(s, <<"<span style=\"color: #f99\">">> \o message \o <<"</span>">>)

(* main.js:5-9 *)
displayError(s, args) ==
    LET message == join(args)
    IN  Game_notify(console_log(s, <<"<span style=\"color: #f99\">">> \o message \o <<"</span>">>),
                    join(args))

(* ---------------------------------------------------------------------- *)
(* The collaborators.  out is the outcome the environment chose.          *)

(* Game.cpu.halt() resets the runtime: it does not return to the caller. *)
Game_cpu_halt(s) == [emit(s, "Game.cpu.halt", <<>>, Returned) EXCEPT !.halted = TRUE]

(* require('xi'): the handle of the module, or a fault while loading it *)
require_xi(s, out) ==
    Result(emit(s, "require", <<"xi">>, out), out, IF out.thrown THEN undefined ELSE "xi")

(* Instantiates the WASM instance and sets the module's __wasm field; a   *)
(* faulting call may have set the field already (wasmSet) or not.         *)
xi_initialize_instance(s, out, wasmSet) ==
    LET s1 == emit(s, "initialize_instance", <<>>, out)
    IN  Result([s1 EXCEPT !.xi.wasm = IF out.thrown THEN @ \/ wasmSet ELSE TRUE],
               out, undefined)

(* A call that runs module logic: it may write keys into global.Memory and *)
(* it leaves a line in the module's log buffer.                            *)
xi_logic(s, op, arg, out, keys) ==
    LET s1 == emit(s, op, arg, out)
    IN  Result([s1 EXCEPT !.Memory.keys = @ \cup keys,
                          !.xi.log = Append(@, <<op>>)],
               out, undefined)

xi_setup(s, out) == xi_logic(s, "setup", <<>>, out, {})

xi_loop(s, out, keys) == xi_logic(s, "loop", <<>>, out, keys)

xi_set_room_blueprint(s, roomName, blueprintJSON, out, keys) ==
    xi_logic(s, "set_room_blueprint", <<roomName, blueprintJSON>>, out, keys)

(* take_log returns the buffered lines as one string and clears the buffer *)
xi_take_log(s, out) ==
    LET s1 == emit(s, "take_log", <<>>, out)
    IN  IF out.thrown THEN Result(s1, out, undefined)
        ELSE Result([s1 EXCEPT !.xi.log = <<>>], out, join(s.xi.log))

(* ---------------------------------------------------------------------- *)
(* main.js                                                                *)

(* Mutant of wrap_catch: the fault is reported and the restart flag is left *)
(* alone.                                                                  *)
wrap_catch_contained(s, ex) ==
    LET s1 == displayError(s, << <<"Caught exception:">>, <<ex.message>> >>)
        s2 == IF ex.stack # ""
              THEN displayError(s1, << <<"Stacktrace:">>, <<ex.stack>> >>)
              ELSE s1
    IN  displayError(s2, << <<"Restarting the bot next tick.">> >>)

(* The catch block of the wrapper, main.js:21-28 *)
wrap_catch(s, ex) ==
    LET s1 == displayError(s, << <<"Caught exception:">>, <<ex.message>> >>)
        s2 == IF ex.stack # ""
              THEN displayError(s1, << <<"Stacktrace:">>, <<ex.stack>> >>)
              ELSE s1
        s3 == displayError(s2, << <<"Restarting the bot next tick.">> >>)
    IN  [s3 EXCEPT !.restartNextTick = TRUE]

(* Mutant of loop_catch: the restart flag is not set. *)
loop_catch_noRestart(s, ex) ==
    LET s1 == displayError(s, << <<"Caught exception:">>, <<ex.message>> >>)
        s2 == IF ex.stack # ""
              THEN displayError(s1, << <<"Stacktrace:">>, <<ex.stack>> >>)
              ELSE s1
    IN  displayError(s2, << <<"Restarting the bot next tick.">> >>)

(* The catch block of module.exports.loop, main.js:78-85 *)
loop_catch(s, ex) ==
    LET s1 == displayError(s, << <<"Caught exception:">>, <<ex.message>> >>)
        s2 == IF ex.stack # ""
              THEN displayError(s1, << <<"Stacktrace:">>, <<ex.stack>> >>)
              ELSE s1
        s3 == displayError(s2, << <<"Restarting the bot next tick.">> >>)
    IN  [s3 EXCEPT !.restartNextTick = TRUE]

(* The function wrapped at main.js:46-48; it returns no value. *)
set_room_blueprint_body(s, args, in) ==
    [xi_set_room_blueprint(s, args[1], args[2], in.set_room_blueprint, in.keys)
        EXCEPT !.ret = undefined]

(* Any other function given to wrap.  wrap is written for every f, and the *)
(* one the file wraps returns no value; this one returns its argument, or  *)
(* faults, so that what the wrapper does with a value can be observed.     *)
echo_body(s, args, in) ==
    Result(emit(s, "echo", args, in.outcome), in.outcome,
           IF in.outcome.thrown THEN undefined ELSE args[1])

(* f(...args) for the functions that are wrapped *)
apply(f, s, args, in) ==
    IF f = "set_room_blueprint" THEN set_room_blueprint_body(s, args, in)
    ELSE echo_body(s, args, in)

(* Mutant of wrap: the wrapper returns the value of f(...args). *)
wrap_returning(f, s, args, in) ==
    LET try == IF s.wasmModule # undefined /\ s.xi.wasm
               THEN apply(f, s, args, in)
               ELSE Result(displayError(s, << <<"WASM VM is not ready.">> >>),
                           Returned, undefined)
    IN  IF try.ex.thrown
        THEN Result(wrap_catch(try.s, try.ex), Returned, undefined)
        ELSE Result(try.s, Returned, try.ret)

(* Mutant of wrap: a command that finds the module not ready asks for a *)
(* restart.                                                            *)
wrap_notReadyFatal(f, s, args, in) ==
    LET try == IF s.wasmModule # undefined /\ s.xi.wasm
               THEN apply(f, s, args, in)
               ELSE Result([displayError(s, << <<"WASM VM is not ready.">> >>)
                               EXCEPT !.restartNextTick = TRUE],
                           Returned, undefined)
    IN  IF try.ex.thrown
        THEN Result(wrap_catch(try.s, try.ex), Returned, undefined)
        ELSE Result(try.s, Returned, undefined)

(* The function wrap(f) returns, applied to args.  The value of f(...args) *)
(* is dropped: the wrapper has no return statement.                        *)
wrap(f, s, args, in) ==
    LET try == IF s.wasmModule # undefined /\ s.xi.wasm
               THEN apply(f, s, args, in)
               ELSE Result(displayError(s, << <<"WASM VM is not ready.">> >>),
                           Returned, undefined)
    IN  IF try.ex.thrown
        THEN Result(wrap_catch(try.s, try.ex), Returned, undefined)
        ELSE Result(try.s, Returned, undefined)

(* Mutant of runLoop: global.Memory is not replaced. *)
runLoop_noReset(s, in) ==
    LET body == xi_loop(s, in.loop, in.keys)
        log  == xi_take_log(body.s, in.take_log)
    IN  IF log.ex.thrown
        THEN Result(log.s, log.ex, undefined)
        ELSE Result(console_log(log.s, log.ret), body.ex, undefined)

(* Mutant of runLoop: the log is taken and not written. *)
runLoop_noWrite(s, in) ==
    LET s1   == [emit(s, "Memory = {}", <<>>, Returned)
                    EXCEPT !.Memory = [id |-> s.nextObj, keys |-> {}],
                           !.nextObj = @ + 1]
        body == xi_loop(s1, in.loop, in.keys)
        log  == xi_take_log(body.s, in.take_log)
    IN  IF log.ex.thrown
        THEN Result(log.s, log.ex, undefined)
        ELSE Result(log.s, body.ex, undefined)

(* Mutant of runLoop: the log is taken only when loop returned. *)
runLoop_noFinally(s, in) ==
    LET s1   == [emit(s, "Memory = {}", <<>>, Returned)
                    EXCEPT !.Memory = [id |-> s.nextObj, keys |-> {}],
                           !.nextObj = @ + 1]
        body == xi_loop(s1, in.loop, in.keys)
        log  == xi_take_log(body.s, in.take_log)
    IN  IF body.ex.thrown THEN body
        ELSE IF log.ex.thrown
        THEN Result(log.s, log.ex, undefined)
        ELSE Result(console_log(log.s, log.ret), body.ex, undefined)

(* main.js:32-44 *)
runLoop(s, in) ==
    LET s1   == [emit(s, "Memory = {}", <<>>, Returned)
                    EXCEPT !.Memory = [id |-> s.nextObj, keys |-> {}],
                           !.nextObj = @ + 1]
        body == xi_loop(s1, in.loop, in.keys)
        \* finally: runs whether or not loop threw
        log  == xi_take_log(body.s, in.take_log)
    IN  IF log.ex.thrown
        THEN Result(log.s, log.ex, undefined)
        ELSE Result(console_log(log.s, log.ret), body.ex, undefined)

global_set_room_blueprint(s, roomName, blueprintJSON, in) ==
    wrap("set_room_blueprint", s, <<roomName, blueprintJSON>>, in)

(* Mutant of load: the line that marks the bot as initialized is missing. *)
load_noMark(s, in) ==
    LET req   == require_xi(s, in.require)
        s1    == [req.s EXCEPT !.wasmModule = req.ret]
        init  == xi_initialize_instance(s1, in.initialize_instance, in.wasmSet)
        setup == xi_setup(init.s, in.setup)
        run   == runLoop(setup.s, in)
    IN  IF req.ex.thrown THEN req
        ELSE IF init.ex.thrown THEN init
        ELSE IF setup.ex.thrown THEN setup
        ELSE run

(* Mutant of load: the first periodic invocation runs before setup. *)
load_swapped(s, in) ==
    LET req   == require_xi(s, in.require)
        s1    == [req.s EXCEPT !.wasmModule = req.ret]
        init  == xi_initialize_instance(s1, in.initialize_instance, in.wasmSet)
        run   == runLoop(init.s, in)
        setup == xi_setup(run.s, in.setup)
    IN  IF req.ex.thrown THEN req
        ELSE IF init.ex.thrown THEN init
        ELSE IF run.ex.thrown THEN run
        ELSE IF setup.ex.thrown THEN setup
        ELSE Result([setup.s EXCEPT !.initialized = TRUE], Returned, undefined)

(* Mutant of load: the bot is marked as initialized before the first *)
(* periodic invocation.                                             *)
load_markEarly(s, in) ==
    LET req   == require_xi(s, in.require)
        s1    == [req.s EXCEPT !.wasmModule = req.ret]
        init  == xi_initialize_instance(s1, in.initialize_instance, in.wasmSet)
        setup == xi_setup(init.s, in.setup)
        run   == runLoop([setup.s EXCEPT !.initialized = TRUE], in)
    IN  IF req.ex.thrown THEN req
        ELSE IF init.ex.thrown THEN init
        ELSE IF setup.ex.thrown THEN setup
        ELSE run

(* main.js:67-76: load the module, initialize it, set it up, run the first *)
(* periodic invocation and mark the bot as initialized.  A fault ends the  *)
(* sequence where it is raised.                                            *)
load(s, in) ==
    LET req   == require_xi(s, in.require)
        s1    == [req.s EXCEPT !.wasmModule = req.ret]
        init  == xi_initialize_instance(s1, in.initialize_instance, in.wasmSet)
        setup == xi_setup(init.s, in.setup)
        run   == runLoop(setup.s, in)
    IN  IF req.ex.thrown THEN req
        ELSE IF init.ex.thrown THEN init
        ELSE IF setup.ex.thrown THEN setup
        ELSE IF run.ex.thrown THEN run
        ELSE Result([run.s EXCEPT !.initialized = TRUE], Returned, undefined)

(* Mutant of loop_try: the bucket is not consulted before loading. *)
loop_try_noGate(s, in) ==
    IF s.wasmModule # undefined /\ s.xi.wasm /\ s.initialized
    THEN runLoop(s, in)
    ELSE load(s, in)

(* Mutant of loop_try: the bucket is checked before anything else. *)
loop_try_gateFirst(s, in) ==
    IF in.bucket < minCPU
    THEN Result(console_log(s, <<"There is", ToString(in.bucket),
                                 "CPU left in the bucket. At least", ToString(minCPU),
                                 "CPU is required to proceed with the compilation. Waiting.">>),
                Returned, "return")
    ELSE IF s.wasmModule # undefined /\ s.xi.wasm /\ s.initialized
    THEN runLoop(s, in)
    ELSE load(s, in)

(* The try block of module.exports.loop.  ret = "return" marks the early *)
(* return of the waiting branch.                                         *)
loop_try(s, in) ==
    IF s.wasmModule # undefined /\ s.xi.wasm /\ s.initialized
    THEN runLoop(s, in)
    ELSE IF in.bucket < minCPU
    THEN Result(console_log(s, <<"There is", ToString(in.bucket),
                                 "CPU left in the bucket. At least", ToString(minCPU),
                                 "CPU is required to proceed with the compilation. Waiting.">>),
                Returned, "return")
    ELSE load(s, in)

(* Mutant of exports_loop: Game.cpu.halt() is taken to return, and the tick *)
(* goes on.                                                                 *)
exports_loop_fallthrough(s, in) ==
    LET s0  == IF s.restartNextTick
               THEN emit(s, "Game.cpu.halt", <<>>, Returned)
               ELSE s
        try == loop_try(s0, in)
    IN  IF try.ex.thrown
        THEN Result(loop_catch(try.s, try.ex), Returned, undefined)
        ELSE Result(try.s, Returned, undefined)

(* Mutant of exports_loop: the catch block reports the fault and throws it *)
(* again.                                                                  *)
exports_loop_rethrow(s, in) ==
    IF s.restartNextTick
    THEN Result(Game_cpu_halt(s), Returned, undefined)
    ELSE LET try == loop_try(s, in)
         IN  IF try.ex.thrown
             THEN Result(loop_catch(try.s, try.ex), try.ex, undefined)
             ELSE Result(try.s, Returned, undefined)

(* Mutant of exports_loop: the restart flag is cleared when the halt is *)
(* requested.                                                          *)
exports_loop_clearFlag(s, in) ==
    IF s.restartNextTick
    THEN Result([Game_cpu_halt(s) EXCEPT !.restartNextTick = FALSE], Returned, undefined)
    ELSE LET try == loop_try(s, in)
         IN  IF try.ex.thrown
             THEN Result(loop_catch(try.s, try.ex), Returned, undefined)
             ELSE Result(try.s, Returned, undefined)

(* Mutant of exports_loop: the halt is requested in the tick that caught *)
(* the fault.                                                           *)
exports_loop_haltNow(s, in) ==
    IF s.restartNextTick
    THEN Result(Game_cpu_halt(s), Returned, undefined)
    ELSE LET try == loop_try(s, in)
         IN  IF try.ex.thrown
             THEN Result(Game_cpu_halt(loop_catch(try.s, try.ex)), Returned, undefined)
             ELSE Result(try.s, Returned, undefined)

(* module.exports.loop, main.js:50-86 *)
exports_loop(s, in) ==
    IF s.restartNextTick
    THEN Result(Game_cpu_halt(s), Returned, undefined)
    ELSE LET try == loop_try(s, in)
         IN  IF try.ex.thrown
             THEN Result(loop_catch(try.s, try.ex), Returned, undefined)
             ELSE Result(try.s, Returned, undefined)

(* ---------------------------------------------------------------------- *)
(* The host: it starts the process, delivers ticks and issues commands.   *)

NoHandler ==
    [handler |-> "none", bucket |-> 0, start |-> 0, threw |-> FALSE, ret |-> undefined,
     pre |-> [wasmModule |-> undefined, wasm |-> FALSE, initialized |-> FALSE,
              restartNextTick |-> FALSE, Memory |-> [id |-> 0, keys |-> {}]]]

Ran(handler, bucket, r) ==
    [handler |-> handler, bucket |-> bucket, start |-> Len(hist), threw |-> r.ex.thrown,
     ret |-> r.ret,
     pre |-> [wasmModule |-> wasmModule, wasm |-> xi.wasm, initialized |-> initialized,
              restartNextTick |-> restartNextTick, Memory |-> Memory]]

(* The handler's effect on the program's state *)
Becomes(s) ==
    /\ wasmModule' = s.wasmModule
    /\ initialized' = s.initialized
    /\ restartNextTick' = s.restartNextTick
    /\ Memory' = s.Memory
    /\ xi' = s.xi
    /\ nextObj' = s.nextObj
    /\ hist' = s.hist
    /\ halted' = s.halted

(* What the collaborators do during one tick: the first call that faults, *)
(* or how loop and take_log end and which keys loop writes.               *)
NoFault ==
    [bucket |-> minCPU, require |-> Returned, initialize_instance |-> Returned,
     wasmSet |-> FALSE, setup |-> Returned, loop |-> Returned, keys |-> {},
     take_log |-> Returned]

TickPlans ==
    {[NoFault EXCEPT !.require = e] : e \in Exceptions}
    \cup {[NoFault EXCEPT !.initialize_instance = e, !.wasmSet = b] :
             e \in Exceptions, b \in BOOLEAN}
    \cup {[NoFault EXCEPT !.setup = e] : e \in Exceptions}
    \cup {[NoFault EXCEPT !.loop = l, !.keys = k, !.take_log = t] :
             l \in Outcomes, k \in SUBSET Keys, t \in Outcomes}

TickInputs == {[p EXCEPT !.bucket = b] : p \in TickPlans, b \in Buckets}

CommandInputs ==
    [set_room_blueprint : Outcomes, keys : SUBSET Keys]

(* The state of a process that has just loaded main.js (lines 2, 3, 11); *)
(* global.Memory is the host's object, with the keys of earlier ticks.    *)
Init ==
    /\ wasmModule = undefined
    /\ initialized = FALSE
    /\ restartNextTick = FALSE
    /\ Memory = [id |-> 0, keys |-> Keys]
    /\ xi = [wasm |-> FALSE, log |-> <<>>]
    /\ nextObj = 1
    /\ hist = <<>>
    /\ last = NoHandler
    /\ halted = FALSE
    /\ ticks = 0
    /\ commands = 0

(* The host delivers a tick: module.exports.loop() *)
Tick ==
    /\ ~halted
    /\ ticks < MaxTicks
    /\ \E in \in TickInputs :
          LET r == exports_loop(State, in)
          IN  Becomes(r.s) /\ last' = Ran("loop", in.bucket, r)
    /\ ticks' = ticks + 1
    /\ UNCHANGED commands

(* The operator calls set_room_blueprint(roomName, blueprintJSON) between ticks *)
Command ==
    /\ ~halted
    /\ commands < MaxCommands
    /\ \E roomName \in RoomNames, blueprintJSON \in BlueprintJSONs, in \in CommandInputs :
          LET r == global_set_room_blueprint(State, roomName, blueprintJSON, in)
          IN  Becomes(r.s) /\ last' = Ran("set_room_blueprint", 0, r)
    /\ commands' = commands + 1
    /\ UNCHANGED ticks

(* After Game.cpu.halt() the host starts a new process, which loads main.js *)
ProcessRestart ==
    /\ halted
    /\ wasmModule' = undefined
    /\ initialized' = FALSE
    /\ restartNextTick' = FALSE
    /\ Memory' = [id |-> 0, keys |-> Keys]
    /\ xi' = [wasm |-> FALSE, log |-> <<>>]
    /\ nextObj' = 1
    /\ hist' = <<>>
    /\ last' = NoHandler
    /\ halted' = FALSE
    /\ ticks' = 0
    /\ commands' = 0

Next == Tick \/ Command \/ ProcessRestart

(* Values a wrapped function may be given and return *)
Values == {"v"}

WrapInputs == [outcome : Outcomes]

(* A call of wrap(f)(v) for a wrapped function other than the blueprint *)
(* command: wrap is defined for every f.                                *)
WrappedCall ==
    /\ ~halted
    /\ commands < MaxCommands
    /\ \E v \in Values, in \in WrapInputs :
          LET r == wrap("echo", State, <<v>>, in)
          IN  Becomes(r.s) /\ last' = Ran("echo", 0, r)
    /\ commands' = commands + 1
    /\ UNCHANGED ticks

NextWrap == Tick \/ WrappedCall \/ ProcessRestart

Spec == Init /\ [][Next]_vars

(* The host keeps delivering ticks and no call into the module faults *)
NoFaultInputs ==
    {[NoFault EXCEPT !.bucket = b, !.keys = k] : b \in Buckets, k \in SUBSET Keys}

TickNoFault ==
    /\ ~halted
    /\ ticks < MaxTicks
    /\ \E in \in NoFaultInputs :
          LET r == exports_loop(State, in)
          IN  Becomes(r.s) /\ last' = Ran("loop", in.bucket, r)
    /\ ticks' = ticks + 1
    /\ UNCHANGED commands

CommandNoFault ==
    /\ ~halted
    /\ commands < MaxCommands
    /\ \E roomName \in RoomNames, blueprintJSON \in BlueprintJSONs, keys \in SUBSET Keys :
          LET in == [set_room_blueprint |-> Returned, keys |-> keys]
              r  == global_set_room_blueprint(State, roomName, blueprintJSON, in)
          IN  Becomes(r.s) /\ last' = Ran("set_room_blueprint", 0, r)
    /\ commands' = commands + 1
    /\ UNCHANGED ticks

NextNoFault == TickNoFault \/ CommandNoFault

SpecNoFault == Init /\ [][NextNoFault]_vars /\ WF_vars(TickNoFault)

(* The driver with calls of a wrapped function that returns a value *)
SpecWrap == Init /\ [][NextWrap]_vars

(* ---------------------------------------------------------------------- *)
(* Vocabulary of the properties.                                          *)

(* LoopState as the driver's three variables encode it *)
LoopStateOf(p) ==
    IF p.restartNextTick THEN "FaultPendingRestart"
    ELSE IF p.wasmModule # undefined /\ p.wasm /\ p.initialized THEN "Ready"
    ELSE "Uninitialized"

Now ==
    [wasmModule |-> wasmModule, wasm |-> xi.wasm, initialized |-> initialized,
     restartNextTick |-> restartNextTick, Memory |-> Memory]

LoopState == LoopStateOf(Now)

(* The calls the last handler made, in order *)
Did == SubSeq(hist, last.start + 1, Len(hist))

Ops(calls) == [i \in 1..Len(calls) |-> calls[i].op]

CountOp(calls, op) == Cardinality({i \in 1..Len(calls) : calls[i].op = op})

Faulted(calls, ops) == \E i \in 1..Len(calls) : calls[i].op \in ops /\ calls[i].thrown

EntryPoints == {"initialize_instance", "setup", "loop", "take_log"}
ModuleCalls == EntryPoints \cup {"require", "set_room_blueprint"}

TickRan == last.handler = "loop"
CommandRan == last.handler = "set_room_blueprint"

DriverUnchanged ==
    /\ wasmModule = last.pre.wasmModule
    /\ initialized = last.pre.initialized
    /\ restartNextTick = last.pre.restartNextTick

(* The two calls of displayError('WASM VM is not ready.') *)
NotReadyReport ==
    /\ Ops(Did) = <<"console.log", "Game.notify">>
    /\ Did[1].arg = <<"<span style=\"color: #f99\">", "WASM VM is not ready.", "</span>">>
    /\ Did[2].arg = <<"WASM VM is not ready.">>

(* ---------------------------------------------------------------------- *)
(* The properties.                                                        *)

(* C1: restart law.  A tick that starts with the restart flag set         *)
(* (LoopState = FaultPendingRestart) requests a hard halt and does        *)
(* nothing else: no call into the module, no reset of the transient       *)
(* store, no log or notification write, and wasmModule, initialized and   *)
(* restartNextTick keep their values.                                     *)
C1_RestartLaw ==
    (TickRan /\ last.pre.restartNextTick) =>
        /\ Ops(Did) = <<"Game.cpu.halt">>
        /\ halted
        /\ DriverUnchanged
        /\ Memory = last.pre.Memory

(* a tick faulted, and the tick after it has run *)
C1_Witness ==
    /\ TickRan /\ last.pre.restartNextTick
    /\ ticks = 2 /\ commands = 0
    /\ Faulted(hist, {"loop"})

(* C2: command gating as stated.  A set_room_blueprint command issued     *)
(* while LoopState # Ready is rejected with the not-ready report and      *)
(* module.set_room_blueprint is not called.                               *)
C2_CommandGating ==
    (CommandRan /\ LoopStateOf(last.pre) # "Ready") =>
        /\ NotReadyReport
        /\ CountOp(Did, "set_room_blueprint") = 0

C4_LifecycleOnce ==
    /\ \A op \in {"require", "initialize_instance", "setup"} : CountOp(hist, op) <= 1
    /\ LoopState = "Ready" =>
          /\ \A op \in {"require", "initialize_instance", "setup"} : CountOp(hist, op) = 1
          /\ wasmModule = "xi"
    /\ (TickRan /\ LoopStateOf(last.pre) = "Ready") =>
          /\ \A op \in {"require", "initialize_instance", "setup"} : CountOp(Did, op) = 0
          /\ wasmModule = last.pre.wasmModule

(* Ready, after a wait tick and two periodic invocations *)
C4_Witness ==
    /\ LoopState = "Ready"
    /\ TickRan /\ LoopStateOf(last.pre) = "Ready"
    /\ ticks = 3
    /\ CountOp(hist, "loop") = 2
    /\ CountOp(hist, "setup") = 1

(* The calls of a tick that loads the module and runs through *)
FullLoad ==
    <<"require", "initialize_instance", "setup", "Memory = {}", "loop", "take_log",
      "console.log">>

C5_WitnessFault ==
    /\ TickRan /\ LoopStateOf(last.pre) = "Uninitialized" /\ last.bucket >= minCPU
    /\ LoopState = "FaultPendingRestart"
    /\ Faulted(Did, {"setup"})

(* C6: a tick with bucket < 750 that starts Uninitialized makes no call   *)
(* into the module, does not replace the transient store, notifies        *)
(* nobody and leaves wasmModule, initialized and restartNextTick as they  *)
(* were; it writes one wait line to the log and returns normally.         *)
C6_WaitTick ==
    (TickRan /\ LoopStateOf(last.pre) = "Uninitialized" /\ last.bucket < minCPU) =>
        /\ Ops(Did) = <<"console.log">>
        /\ Did[1].arg[2] = ToString(last.bucket)
        /\ DriverUnchanged
        /\ Memory = last.pre.Memory
        /\ xi.wasm = last.pre.wasm
        /\ ~last.threw /\ ~halted
        /\ LoopState = "Uninitialized"

C6_Witness ==
    /\ TickRan /\ LoopStateOf(last.pre) = "Uninitialized" /\ last.bucket = 749
    /\ ticks = 2
    /\ Len(hist) = 2

ReturnedBefore(op, i) ==
    \E j \in 1..(i - 1) : hist[j].op = op /\ ~hist[j].thrown

C8_Ordering ==
    \A i \in 1..Len(hist) :
        /\ hist[i].op = "loop" => ReturnedBefore("setup", i)
        /\ hist[i].op = "setup" => ReturnedBefore("initialize_instance", i)
        /\ hist[i].op = "initialize_instance" => ReturnedBefore("require", i)

C8_Witness ==
    /\ CountOp(hist, "loop") = 3
    /\ CountOp(hist, "setup") = 1

(* C9: atomic setup.  Once require, initialize_instance or setup has      *)
(* faulted, no tick calls initialize_instance, setup, loop or take_log    *)
(* for the rest of the process lifetime.                                  *)
C9_NoUseAfterFailedLoad ==
    \A i \in 1..Len(hist) :
        (hist[i].op \in {"require", "initialize_instance", "setup"} /\ hist[i].thrown) =>
            \A j \in (i + 1)..Len(hist) : hist[j].op \notin EntryPoints

(* setup faulted with the handle assigned, and the next tick has run *)
C9_Witness ==
    /\ Faulted(hist, {"setup"})
    /\ wasmModule = "xi" /\ ~initialized
    /\ TickRan /\ last.pre.restartNextTick
    /\ last.start > 0

(* C10: transient store isolation.  Every call of loop is immediately     *)
(* preceded by the replacement of global.Memory with a new empty object:  *)
(* loop finds no key of an earlier tick, and no two calls of loop find    *)
(* the same object.                                                       *)
C10_TransientStore ==
    \A i \in 1..Len(hist) :
        hist[i].op = "loop" =>
            /\ i > 1 /\ hist[i - 1].op = "Memory = {}"
            /\ hist[i].mem.keys = {}
            /\ hist[i].mem.id # hist[i - 1].mem.id
            /\ \A j \in 1..(i - 1) : hist[j].mem.id # hist[i].mem.id

(* a tick wrote a key, and the next tick's loop has run *)
C10_Witness ==
    \E i, j \in 1..Len(hist) :
        /\ i < j
        /\ hist[i].op = "loop" /\ hist[i + 1].mem.keys # {}
        /\ hist[j].op = "loop" /\ hist[j].mem.keys = {}

(* C11: FaultPendingRestart is terminal for the process.  While the       *)
(* process lives, no tick and no command resets restartNextTick once it   *)
(* is set, and initialized does not become true afterwards: LoopState     *)
(* does not go from FaultPendingRestart to Ready or Uninitialized.        *)
C11_RestartFlagTerminal ==
    [][(restartNextTick /\ ~halted) =>
          /\ restartNextTick'
          /\ initialized' = initialized
          /\ LoopState' = "FaultPendingRestart"]_vars

(* the flag was set, a command and then a tick have run, and it is still set *)
C11_Witness ==
    /\ TickRan /\ last.pre.restartNextTick /\ restartNextTick
    /\ commands >= 1
    /\ \E i \in 1..Len(hist) :
          /\ hist[i].op = "set_room_blueprint"
          /\ \E j \in 1..(i - 1) : hist[j].thrown

(* The error lines of the log: those displayError writes *)
Colored(call) ==
    /\ call.op = "console.log"
    /\ Len(call.arg) >= 2
    /\ call.arg[1] = "<span style=\"color: #f99\">"
    /\ call.arg[Len(call.arg)] = "</span>"

(* The text between the markup of an error line *)
Uncolored(call) == SubSeq(call.arg, 2, Len(call.arg) - 1)

(* The fault a handler caught: the last one raised in it *)
CaughtAt(calls) ==
    CHOOSE k \in 1..Len(calls) :
        calls[k].thrown /\ \A i \in (k + 1)..Len(calls) : ~calls[i].thrown

(* C12: fault reporting.  A tick that catches a fault of the module       *)
(* writes, before it returns, a colored line with the fault's message to  *)
(* the log and sends the same text to the notification channel, and       *)
(* LoopState becomes FaultPendingRestart.  Every colored line is followed *)
(* by the notification of its text, and a tick without a fault notifies   *)
(* nobody.                                                                *)
C12_FaultReported ==
    TickRan =>
        /\ Faulted(Did, ModuleCalls) =>
              LET k == CaughtAt(Did)
              IN  /\ LoopState = "FaultPendingRestart"
                  /\ \E r \in (k + 1)..(Len(Did) - 1) :
                        /\ \A i \in 1..(r - 1) : ~Colored(Did[i]) /\ Did[i].op # "Game.notify"
                        /\ Colored(Did[r])
                        /\ Uncolored(Did[r]) = <<"Caught exception:", " ", Did[k].message>>
                        /\ Did[r + 1].op = "Game.notify"
                        /\ Did[r + 1].arg = <<"Caught exception:", " ", Did[k].message>>
        /\ \A i \in 1..Len(Did) :
              /\ Colored(Did[i]) =>
                    /\ i < Len(Did)
                    /\ Did[i + 1].op = "Game.notify"
                    /\ Did[i + 1].arg = Uncolored(Did[i])
              /\ Did[i].op = "Game.notify" => (i > 1 /\ Colored(Did[i - 1]))
        /\ ~Faulted(Did, ModuleCalls) => CountOp(Did, "Game.notify") = 0

(* bucket 800, setup raises "boom" *)
C12_Witness ==
    /\ TickRan /\ last.bucket = 800
    /\ Faulted(Did, {"setup"})
    /\ Did[CaughtAt(Did)].message = "boom"
    /\ LoopState = "FaultPendingRestart"

EchoRan == last.handler = "echo"

(* the module was ready and f returned normally *)
EchoReturned ==
    /\ EchoRan
    /\ last.pre.wasmModule # undefined /\ last.pre.wasm
    /\ ~Faulted(Did, {"echo"})

RECURSIVE PendingLines(_, _)
PendingLines(calls, i) ==
    IF i = 0 THEN <<>>
    ELSE IF calls[i].op = "take_log" /\ ~calls[i].thrown THEN <<>>
    ELSE IF calls[i].op \in {"setup", "loop", "set_room_blueprint"}
    THEN Append(PendingLines(calls, i - 1), <<calls[i].op>>)
    ELSE PendingLines(calls, i - 1)

(* The plain writes to the log: neither error lines nor the wait line *)
Flushes(calls) ==
    {i \in 1..Len(calls) :
        /\ calls[i].op = "console.log"
        /\ ~Colored(calls[i])
        /\ (i > 1 /\ calls[i - 1].op = "take_log")}

PlainWrites(calls) ==
    {i \in 1..Len(calls) : calls[i].op = "console.log" /\ ~Colored(calls[i])}

VMNotReady(p) == ~(p.wasmModule # undefined /\ p.wasm)

(* C15: NotReady is not fatal.  A command issued while no handle is       *)
(* loaded, or while its readiness marker is unset, does not reach the     *)
(* module; it is reported once to the log and once to the notification    *)
(* channel and returns normally, and it changes nothing of the program:   *)
(* wasmModule, initialized, restartNextTick, global.Memory and the module *)
(* are as they were, so the ticks that follow run as without it.          *)
C15_NotReadyNonFatal ==
    [][(commands' # commands /\ ~halted /\ VMNotReady(Now)) =>
          /\ UNCHANGED <<wasmModule, initialized, restartNextTick, Memory, xi, nextObj,
                         halted, ticks>>
          /\ ~last'.threw
          /\ Len(hist') = Len(hist) + 2
          /\ SubSeq(hist', 1, Len(hist)) = hist
          /\ hist'[Len(hist) + 1].op = "console.log"
          /\ hist'[Len(hist) + 1].arg =
                <<"<span style=\"color: #f99\">", "WASM VM is not ready.", "</span>">>
          /\ hist'[Len(hist) + 2].op = "Game.notify"
          /\ hist'[Len(hist) + 2].arg = <<"WASM VM is not ready.">>]_vars

(* a command before the module was loaded, and the load in the tick after it *)
C15_Witness ==
    /\ TickRan /\ LoopState = "Ready"
    /\ last.start = 2
    /\ hist[1].arg = <<"<span style=\"color: #f99\">", "WASM VM is not ready.", "</span>">>
    /\ Ops(Did) = FullLoad

(* a command after initialize_instance faulted without setting the marker *)
C15_WitnessMarkerUnset ==
    /\ CommandRan /\ NotReadyReport
    /\ last.pre.wasmModule = "xi" /\ ~last.pre.wasm

(* C16: a hard halt is requested only as the first action of a tick that  *)
(* started with the restart flag set.  It is the only call of that tick,  *)
(* a fault was caught by an earlier handler of the same process, and no   *)
(* command requests it.                                                   *)
C16_HaltOnlyAtTickStart ==
    /\ halted <=> CountOp(hist, "Game.cpu.halt") = 1
    /\ CountOp(hist, "Game.cpu.halt") <= 1
    /\ \A i \in 1..Len(hist) :
          hist[i].op = "Game.cpu.halt" =>
              /\ i = Len(hist)
              /\ TickRan
              /\ last.start = i - 1
              /\ last.pre.restartNextTick
              /\ \E j \in 1..(i - 1) : hist[j].thrown
              /\ \E j \in 1..(i - 1) :
                    /\ hist[j].op = "Game.notify"
                    /\ hist[j].arg = <<"Restarting the bot next tick.">>

(* a tick caught a fault and did not halt; the next tick did *)
C16_Witness ==
    /\ halted
    /\ ticks = 2 /\ commands = 0
    /\ Faulted(hist, {"take_log"})

(* the tick that caught the fault has ended without a halt *)
C16_WitnessFaultTick ==
    /\ TickRan /\ Faulted(Did, ModuleCalls)
    /\ ~halted /\ restartNextTick

(* C17: a tick that starts Ready, no restart pending, calls loop exactly  *)
(* once whatever the bucket is: the threshold is not consulted and no     *)
(* wait line is written.  No tick calls loop more than once.              *)
C17_LoopOncePerTick ==
    TickRan =>
        /\ CountOp(Did, "loop") <= 1
        /\ LoopStateOf(last.pre) = "Ready" =>
              /\ CountOp(Did, "loop") = 1
              /\ Ops(SubSeq(Did, 1, 3)) = <<"Memory = {}", "loop", "take_log">>

(* a Ready tick with the bucket below the threshold *)
C17_Witness ==
    /\ TickRan /\ LoopStateOf(last.pre) = "Ready"
    /\ last.bucket < minCPU
    /\ CountOp(Did, "loop") = 1

(* The place of the call of op among calls (op is called once) *)
IndexOf(calls, op) == CHOOSE i \in 1..Len(calls) : calls[i].op = op

(* The first error line among calls *)
FirstColored(calls) ==
    CHOOSE r \in 1..Len(calls) :
        Colored(calls[r]) /\ \A i \in 1..(r - 1) : ~Colored(calls[i])

(* C18 as stated: when loop faults, take_log is called and its result is  *)
(* written to the log exactly once in that tick, before the fault is      *)
(* reported.                                                              *)
C18_FlushedOnFault ==
    (TickRan /\ Faulted(Did, {"loop"})) =>
        /\ CountOp(Did, "take_log") = 1
        /\ Cardinality(Flushes(Did)) = 1
        /\ \A i \in Flushes(Did) : i < FirstColored(Did)

(* C18, amended: when loop faults, take_log is still called, once, right  *)
(* after loop.  If take_log returns, its result, the lines buffered       *)
(* before the fault, is written to the log exactly once, before the fault *)
(* of loop is reported through displayError and before the restart flag   *)
(* is set.  If take_log faults as well, nothing of the buffer is written  *)
(* and the fault of take_log is the one reported.                         *)
C18_FlushedOnFaultIfTaken ==
    (TickRan /\ Faulted(Did, {"loop"})) =>
        /\ CountOp(Did, "take_log") = 1
        /\ restartNextTick
        /\ LET l == IndexOf(Did, "loop")
               k == IndexOf(Did, "take_log")
               r == FirstColored(Did)
           IN  /\ k = l + 1
               /\ \A i \in 1..Len(Did) : ~Did[i].restart
               /\ IF Did[k].thrown
                  THEN /\ PlainWrites(Did) = {}
                       /\ r = k + 1
                       /\ Uncolored(Did[r]) = <<"Caught exception:", " ", Did[k].message>>
                  ELSE /\ PlainWrites(Did) = {k + 1}
                       /\ Did[k + 1].arg = join(PendingLines(hist, last.start + k - 1))
                       /\ r = k + 2
                       /\ Uncolored(Did[r]) = <<"Caught exception:", " ", Did[l].message>>

(* loop faulted in a Ready tick and the buffered line was written before the report *)
C18_Witness ==
    /\ TickRan /\ LoopStateOf(last.pre) = "Ready"
    /\ Faulted(Did, {"loop"}) /\ ~Faulted(Did, {"take_log"})
    /\ Did[3].op = "take_log" /\ Did[4].arg = <<"loop">>
    /\ Colored(Did[5])

(* loop and take_log both faulted: nothing of the buffer was written *)
C18_WitnessBothFault ==
    /\ TickRan
    /\ Faulted(Did, {"loop"}) /\ Faulted(Did, {"take_log"})
    /\ PlainWrites(Did) = {}

ReturnedOnce(op) ==
    /\ CountOp(hist, op) = 1
    /\ ~Faulted(hist, {op})

(* C19: in every reachable state, initialized implies that the handle is  *)
(* loaded, that require, initialize_instance and setup have each been     *)
(* called once and returned normally, and that a periodic invocation      *)
(* (loop and the taking of the log after it) has returned normally.  A    *)
(* tick in which setup returns and the first loop or take_log faults      *)
(* leaves initialized false.                                              *)
C19_InitializedMeans ==
    /\ initialized =>
          /\ wasmModule = "xi" /\ xi.wasm
          /\ ReturnedOnce("require")
          /\ ReturnedOnce("initialize_instance")
          /\ ReturnedOnce("setup")
          /\ \E i \in 1..(Len(hist) - 1) :
                /\ hist[i].op = "loop" /\ ~hist[i].thrown
                /\ hist[i + 1].op = "take_log" /\ ~hist[i + 1].thrown
                /\ ReturnedBefore("setup", i)
    /\ (TickRan /\ ~last.pre.initialized /\ Faulted(Did, {"loop", "take_log"})) =>
          ~initialized

(* setup and loop returned, take_log faulted: not initialized *)
C19_Witness ==
    /\ TickRan /\ ~initialized
    /\ ReturnedOnce("setup")
    /\ ~Faulted(Did, {"loop"}) /\ Faulted(Did, {"take_log"})
    /\ wasmModule = "xi" /\ xi.wasm

C19_WitnessInitialized ==
    /\ initialized
    /\ ticks = 1

(* C20: progress without faults.  While no call into the module faults,   *)
(* a tick that starts Uninitialized with bucket >= 750 ends Ready, a tick *)
(* that starts Uninitialized with bucket < 750 ends Uninitialized (there  *)
(* is no timeout and no forced load), a tick that starts Ready ends       *)
(* Ready, and a command does not change LoopState.                        *)
C20_Progress ==
    [][/\ ticks' # ticks =>
            /\ (LoopState = "Uninitialized" /\ last'.bucket >= minCPU) =>
                  LoopState' = "Ready"
            /\ (LoopState = "Uninitialized" /\ last'.bucket < minCPU) =>
                  LoopState' = "Uninitialized"
            /\ LoopState = "Ready" => LoopState' = "Ready"
       /\ commands' # commands => LoopState' = LoopState]_vars

(* two wait ticks, then the first tick with enough bucket made it Ready *)
C20_Witness ==
    /\ LoopState = "Ready"
    /\ ticks = 3
    /\ CountOp(hist, "loop") = 1
    /\ CountOp(hist, "console.log") = 3
    /\ ~Faulted(hist, ModuleCalls)

(* the bucket stayed below the threshold: still Uninitialized *)
C20_WitnessWaiting ==
    /\ LoopState = "Uninitialized"
    /\ ticks = 3
    /\ Ops(hist) = <<"console.log", "console.log", "console.log">>

====
